---- MODULE Spec2Model ----
(***************************************************************************)
(* Model of facemesh/src/index.ts: FaceMesh.load, FaceMesh.estimateFaces,   *)
(* clearPipelineROIs, flipFaceHorizontal and the annotation mapping.        *)
(*                                                                          *)
(* Confidences and the detection threshold are scaled by 100 (0.9 -> 90).   *)
(* A tensor is a handle of the heap: heap[id] = [val, live]; dispose()      *)
(* clears live.  A field of a result is a tagged value: an array            *)
(* [tag |-> "array", val |-> v] or a tensor [tag |-> "tensor", id |-> id],  *)
(* which is what `instanceof tf.Tensor` tells apart.                        *)
(***************************************************************************)
EXTENDS Integers, Sequences, FiniteSets, TLC

\* ---------------------------------------------------------------- bounds
MaxFaces == 2
MaxReadFailures == 1
MeshLen == 3
FlipLen == 2

\* ------------------------------------------------------ program constants
DefaultDetectionConfidence == 90

\* Confidences the facade may report (x100): below, at and above the default.
ConfValues == {89, 90, 91}

\* Inputs of estimateFaces: a tf.Tensor3D (shape [h, w, 3]) or a pixel source
\* (ImageData / video / image / canvas with height and width fields).
Inputs ==
  { [kind |-> "tensor", shape |-> <<2, 4, 3>>, height |-> 0, width |-> 0],
    [kind |-> "pixels", shape |-> <<>>, height |-> 2, width |-> 3] }

\* Options of load(): detectionConfidence defaults to 0.9; 0.91 is a caller's choice.
LoadOptions ==
  { [detectionConfidence |-> DefaultDetectionConfidence], [detectionConfidence |-> 91] }

NoInput == [kind |-> "none", shape |-> <<>>, height |-> 0, width |-> 0]

\* ------------------------------------------------------------ annotation table
\* keypoints.ts: name -> ordered list of (0-based) landmark indices.
MESH_ANNOTATIONS ==
  [ silhouette |-> <<2, 0, 1>>,
    lipsUpperOuter |-> <<1, 2>>,
    noseTip |-> <<0>> ]

\* ------------------------------------------------------------ tagged values
Arr(v) == [tag |-> "array", val |-> v, id |-> <<0, "none">>]
Ten(tid) == [tag |-> "tensor", val |-> <<>>, id |-> tid]
IsTensor(x) == x.tag = "tensor"

\* ------------------------------------------------------------ facade output
\* Prediction i of a batch: live buffers flag, coords, scaledCoords,
\* box.startPoint, box.endPoint.  The values depend on the position i and on
\* a per-batch base, so that two faces of one batch never carry the same data.
CoordsOf(base, i) == [j \in 1..MeshLen |-> <<base + 2 * i + j, j>>]
ScaledCoordsOf(base, i) == [j \in 1..MeshLen |-> <<10 * i + base + j, 3 * j + i>>]

MkPrediction(conf, base, i) ==
  [ flag |-> conf,
    coords |-> CoordsOf(base, i),
    scaledCoords |-> ScaledCoordsOf(base, i),
    box |-> [startPoint |-> <<base + i, i>>, endPoint |-> <<base + i + 2, i + 3>>] ]

Bases == {0, 1}

PredictionBatches ==
  UNION { { [i \in 1..k |-> MkPrediction(confs[i], base, i)] :
              confs \in [1..k -> ConfValues], base \in Bases } : k \in 0..MaxFaces }

\* ------------------------------------------------------------ state
VARIABLES
  loadPc,              \* FaceMesh.load: "new", "loading", "loaded", "failed"
  faceModel,           \* loadFaceModel promise: "none", "pending", "ok", "fail"
  meshModel,           \* loadMeshModel promise: "none", "pending", "ok", "fail"
  pipeline,            \* this.pipeline: "unset" or "set"
  detectionConfidence, \* this.detectionConfidence (0 while undefined)
  loadOptions,         \* the options load() was called with
  pc,                  \* estimateFaces: "idle", "awaitPredict", "awaitFaces",
                       \*                "resolved", "rejected"
  input,               \* the input argument
  returnTensors,
  flipHorizontal,
  width,               \* const [, width] = getInputTensorDimensions(input)
  heap,                \* tensor id -> [val, live]
  predictions,         \* what pipeline.predict resolved to
  predictOutcome,      \* pipeline.predict: "pending", "null", "batch", "rejected"
  facePc,              \* per-face callback: "reading", "done", "failed"
  readOK,              \* per face: buffers whose array() had fulfilled when one rejected
  faceResult,          \* per face: value its callback returned
  faceLog,             \* per face: events of its callback, in order
  settleOrder,         \* faces in the order their callbacks returned
  result,              \* what estimateFaces resolved to
  resultNull,          \* estimateFaces resolved to null
  clearCalls,          \* number of pipeline.clearROIs() invocations
  predictCalls,        \* number of pipeline.predict() invocations
  readFailures,        \* number of array() rejections so far
  flipPc,              \* flipFaceHorizontal applied on its own: "off", "input",
                       \*   "once", "twice", "done"
  flipWidth,           \* imageWidth
  flipFace,            \* the array-typed face given
  flipOnce,            \* flipFaceHorizontal(flipFace, flipWidth)
  flipTwice,           \* flipFaceHorizontal(flipOnce, flipWidth)
  flipBuf              \* the buffer-typed counterpart of flipFace, flipped: [face, heap]

loadVars == <<loadPc, faceModel, meshModel, pipeline, detectionConfidence, loadOptions>>
callVars == <<pc, input, returnTensors, flipHorizontal, width, heap, predictions,
              predictOutcome, facePc, readOK, faceResult, faceLog, settleOrder,
              result, resultNull, clearCalls, predictCalls, readFailures>>
flipVars == <<flipPc, flipWidth, flipFace, flipOnce, flipTwice, flipBuf>>
vars == <<loadVars, callVars, flipVars>>

\* An array-typed AnnotatedPrediction without annotations.
ArrayFace(conf, topLeft, bottomRight, mesh, scaledMesh) ==
  [ faceInViewConfidence |-> Arr(conf),
    boundingBox |-> [topLeft |-> Arr(topLeft), bottomRight |-> Arr(bottomRight)],
    mesh |-> Arr(mesh),
    scaledMesh |-> Arr(scaledMesh) ]

NoFace == ArrayFace(0, <<0, 0>>, <<0, 0>>, << >>, << >>)
NoFlip ==
  /\ flipPc = "off"
  /\ flipWidth = 0
  /\ flipFace = NoFace
  /\ flipOnce = NoFace
  /\ flipTwice = NoFace
  /\ flipBuf = [face |-> NoFace, heap |-> << >>]

\* FaceMesh before load() and before any call.
NoCall ==
  /\ loadPc = "new"
  /\ faceModel = "none"
  /\ meshModel = "none"
  /\ pipeline = "unset"
  /\ detectionConfidence = 0
  /\ loadOptions = [detectionConfidence |-> 0]
  /\ pc = "idle"
  /\ input = NoInput
  /\ returnTensors = FALSE
  /\ flipHorizontal = FALSE
  /\ width = 0
  /\ heap = << >>
  /\ predictions = << >>
  /\ predictOutcome = "pending"
  /\ facePc = << >>
  /\ readOK = << >>
  /\ faceResult = << >>
  /\ faceLog = << >>
  /\ settleOrder = << >>
  /\ result = << >>
  /\ resultNull = FALSE
  /\ clearCalls = 0
  /\ predictCalls = 0
  /\ readFailures = 0

Init ==
  /\ NoCall
  /\ NoFlip

\* ------------------------------------------------------------ FaceMesh.load
\* load(): Promise.all([loadFaceModel(...), loadMeshModel()]) starts both loads.
LoadStart(options) ==
  /\ UNCHANGED flipVars
  /\ loadPc = "new"
  /\ loadPc' = "loading"
  /\ loadOptions' = options
  /\ faceModel' = "pending"
  /\ meshModel' = "pending"
  /\ UNCHANGED <<pipeline, detectionConfidence, callVars>>

LoadFaceModelSettle(ok) ==
  /\ UNCHANGED flipVars
  /\ faceModel = "pending"
  /\ faceModel' = IF ok THEN "ok" ELSE "fail"
  /\ UNCHANGED <<loadPc, meshModel, pipeline, detectionConfidence, loadOptions, callVars>>

LoadMeshModelSettle(ok) ==
  /\ UNCHANGED flipVars
  /\ meshModel = "pending"
  /\ meshModel' = IF ok THEN "ok" ELSE "fail"
  /\ UNCHANGED <<loadPc, faceModel, pipeline, detectionConfidence, loadOptions, callVars>>

\* Mutant of LoadFinish: only the detector load is waited for.
LoadFinishAfterFaceModel ==
  /\ UNCHANGED flipVars
  /\ loadPc = "loading"
  /\ faceModel = "ok"
  /\ loadPc' = "loaded"
  /\ pipeline' = "set"
  /\ detectionConfidence' = loadOptions.detectionConfidence
  /\ UNCHANGED <<faceModel, meshModel, loadOptions, callVars>>

\* Promise.all fulfilled: construct the pipeline, set detectionConfidence.
LoadFinish ==
  /\ UNCHANGED flipVars
  /\ loadPc = "loading"
  /\ faceModel = "ok"
  /\ meshModel = "ok"
  /\ loadPc' = "loaded"
  /\ pipeline' = "set"
  /\ detectionConfidence' = loadOptions.detectionConfidence
  /\ UNCHANGED <<faceModel, meshModel, loadOptions, callVars>>

\* Promise.all rejected: load() rejects, nothing is assigned.
LoadReject ==
  /\ UNCHANGED flipVars
  /\ loadPc = "loading"
  /\ \/ faceModel = "fail"
     \/ meshModel = "fail"
  /\ loadPc' = "failed"
  /\ UNCHANGED <<faceModel, meshModel, pipeline, detectionConfidence, loadOptions, callVars>>

\* ------------------------------------------------------------ tensor runtime
InputId == <<0, "input">>
InputToFloatId == <<0, "inputToFloat">>
ImageId == <<0, "image">>

Alloc(h, tid, v) ==
  [x \in (DOMAIN h) \cup {tid} |-> IF x = tid THEN [val |-> v, live |-> TRUE] ELSE h[x]]

Dispose(h, tid) == [h EXCEPT ![tid].live = FALSE]

Live(tid) == tid \in DOMAIN heap /\ heap[tid].live

\* tf.sub(scalar, t) on a 1-D tensor.
TfSubScalar(a, t) == [k \in DOMAIN t |-> a - t[k]]
\* t.slice(begin, size) on a 1-D tensor.
TfSlice(t, begin, size) == SubSeq(t, begin + 1, begin + size)
\* tf.concat([a, b]) on 1-D tensors.
TfConcat(a, b) == a \o b
\* tf.sub(vec, m): a 1-D tensor of length 2 broadcast over the rows of m.
TfSubBroadcast(vec, m) == [j \in DOMAIN m |-> <<vec[1] - m[j][1], vec[2] - m[j][2]>>]
\* m.mul(vec), broadcast over the rows of m.
TfMulBroadcast(m, vec) == [j \in DOMAIN m |-> <<m[j][1] * vec[1], m[j][2] * vec[2]>>]

\* ------------------------------------------------------------ helpers of index.ts
\* tf.browser.fromPixels(input): a tensor of shape [height, width, 3].
FromPixels(inp) ==
  [kind |-> "tensor", shape |-> <<inp.height, inp.width, 3>>, height |-> 0, width |-> 0]

GetInputTensorDimensions(inp) ==
  IF inp.kind = "tensor" THEN <<inp.shape[1], inp.shape[2]>>
  ELSE <<inp.height, inp.width>>

\* Mutant of ClearPipelineROIs: the comparison made non-strict.
ClearPipelineROIsAtThreshold(flag, threshold, calls) ==
  IF flag <= threshold THEN calls + 1 ELSE calls

\* clearPipelineROIs(flag): the number of clearROIs() invocations afterwards.
ClearPipelineROIs(flag, threshold, calls) ==
  IF flag < threshold THEN calls + 1 ELSE calls

\* Mutant of ClearStep: the invalidation moved behind the raw-buffer return.
ClearStepArraysOnly(rt, flagValue, threshold, calls) ==
  IF rt THEN calls
  ELSE IF flagValue < threshold THEN calls + 1 ELSE calls

\* Line 176: this.clearPipelineROIs(flagValue), ahead of the branch on returnTensors.
ClearStep(rt, flagValue, threshold, calls) == ClearPipelineROIs(flagValue, threshold, calls)

\* let tensorsToRead = [flag]; if (!returnTensors) concat the other four.
TensorsToRead(rt) ==
  IF rt THEN <<"flag">>
  ELSE <<"flag">> \o <<"coords", "scaledCoords", "startPoint", "endPoint">>

Range(s) == {s[k] : k \in DOMAIN s}

\* Mutant of FlipArrays: imageWidth - x in place of imageWidth - 1 - x.
FlipArraysOffByOne(face, imageWidth) ==
  [face EXCEPT
     !.boundingBox =
        [ topLeft |-> Arr(<<imageWidth - face.boundingBox.topLeft.val[1],
                            face.boundingBox.topLeft.val[2]>>),
          bottomRight |-> Arr(<<imageWidth - face.boundingBox.bottomRight.val[1],
                                face.boundingBox.bottomRight.val[2]>>) ],
     !.mesh = Arr([j \in DOMAIN face.mesh.val |->
                     <<imageWidth - face.mesh.val[j][1], face.mesh.val[j][2]>>]),
     !.scaledMesh = Arr([j \in DOMAIN face.scaledMesh.val |->
                     <<imageWidth - face.scaledMesh.val[j][1],
                       face.scaledMesh.val[j][2]>>]) ]

\* Mutant of FlipArrays: mirrored x clamped to the image (never negative).
ClampX(x) == IF x < 0 THEN 0 ELSE x

FlipArraysClamped(face, imageWidth) ==
  [face EXCEPT
     !.boundingBox =
        [ topLeft |-> Arr(<<ClampX(imageWidth - 1 - face.boundingBox.topLeft.val[1]),
                            face.boundingBox.topLeft.val[2]>>),
          bottomRight |-> Arr(<<ClampX(imageWidth - 1 - face.boundingBox.bottomRight.val[1]),
                                face.boundingBox.bottomRight.val[2]>>) ],
     !.mesh = Arr([j \in DOMAIN face.mesh.val |->
                     <<ClampX(imageWidth - 1 - face.mesh.val[j][1]), face.mesh.val[j][2]>>]),
     !.scaledMesh = Arr([j \in DOMAIN face.scaledMesh.val |->
                     <<ClampX(imageWidth - 1 - face.scaledMesh.val[j][1]),
                       face.scaledMesh.val[j][2]>>]) ]

\* flipFaceHorizontal, array-typed branch (lines 72-89).
FlipArrays(face, imageWidth) ==
  [face EXCEPT
     !.boundingBox =
        [ topLeft |-> Arr(<<imageWidth - 1 - face.boundingBox.topLeft.val[1],
                            face.boundingBox.topLeft.val[2]>>),
          bottomRight |-> Arr(<<imageWidth - 1 - face.boundingBox.bottomRight.val[1],
                                face.boundingBox.bottomRight.val[2]>>) ],
     !.mesh = Arr([j \in DOMAIN face.mesh.val |->
                     <<imageWidth - 1 - face.mesh.val[j][1], face.mesh.val[j][2]>>]),
     !.scaledMesh = Arr([j \in DOMAIN face.scaledMesh.val |->
                     <<imageWidth - 1 - face.scaledMesh.val[j][1],
                       face.scaledMesh.val[j][2]>>]) ]

\* Values of the tensors the buffer-typed branch creates (lines 52-68).
FlipCornerValue(t, imageWidth) ==
  TfConcat(TfSubScalar(imageWidth - 1, TfSlice(t, 0, 1)), TfSlice(t, 1, 1))

\* Mutant of FlipMeshValue: the multiplication by [1, -1] left out.
FlipMeshValueNoMul(m, imageWidth) == TfSubBroadcast(<<imageWidth - 1, 0>>, m)

FlipMeshValue(m, imageWidth) ==
  TfMulBroadcast(TfSubBroadcast(<<imageWidth - 1, 0>>, m), <<1, -1>>)

\* flipFaceHorizontal, buffer-typed branch (lines 49-70): the new face and the
\* heap with the four tensors it allocates for face i.
FlipTensors(face, imageWidth, h, i) ==
  LET tl == <<i, "flip.topLeft">>
      br == <<i, "flip.bottomRight">>
      me == <<i, "flip.mesh">>
      sm == <<i, "flip.scaledMesh">>
      h1 == Alloc(h, tl, FlipCornerValue(h[face.boundingBox.topLeft.id].val, imageWidth))
      h2 == Alloc(h1, br, FlipCornerValue(h[face.boundingBox.bottomRight.id].val, imageWidth))
      h3 == Alloc(h2, me, FlipMeshValue(h[face.mesh.id].val, imageWidth))
      h4 == Alloc(h3, sm, FlipMeshValue(h[face.scaledMesh.id].val, imageWidth))
  IN [ face |-> [face EXCEPT
                   !.boundingBox = [topLeft |-> Ten(tl), bottomRight |-> Ten(br)],
                   !.mesh = Ten(me),
                   !.scaledMesh = Ten(sm)],
       heap |-> h4 ]

FlipFaceHorizontal(face, imageWidth, h, i) ==
  IF IsTensor(face.mesh) THEN FlipTensors(face, imageWidth, h, i)
  ELSE [face |-> FlipArrays(face, imageWidth), heap |-> h]

\* Mutant of Annotations: the last index of every list left out.
AnnotationsDropLast(scaledMesh) ==
  [key \in DOMAIN MESH_ANNOTATIONS |->
     [n \in 1..(Len(MESH_ANNOTATIONS[key]) - 1) |->
        scaledMesh[MESH_ANNOTATIONS[key][n] + 1]]]

\* Lines 222-230: for (const key in MESH_ANNOTATIONS) annotations[key] = ...
Annotations(scaledMesh) ==
  [key \in DOMAIN MESH_ANNOTATIONS |->
     [n \in 1..Len(MESH_ANNOTATIONS[key]) |-> scaledMesh[MESH_ANNOTATIONS[key][n] + 1]]]

\* ------------------------------------------------------------ estimateFaces
FaceIds == 1..Len(predictions)

\* Lines 147-154, up to the await of pipeline.predict(image).
EstimateFacesStart(inp, rt, flip) ==
  /\ UNCHANGED flipVars
  /\ pc = "idle"
  /\ pipeline = "set"
  /\ LET tensor == IF inp.kind = "tensor" THEN inp ELSE FromPixels(inp)
         h1 == Alloc(heap, InputId, tensor.shape)
         h2 == Alloc(h1, InputToFloatId, tensor.shape)
         h3 == Alloc(h2, ImageId, <<1>> \o tensor.shape)
     IN /\ width' = GetInputTensorDimensions(tensor)[2]
        /\ heap' = h3
  /\ input' = inp
  /\ returnTensors' = rt
  /\ flipHorizontal' = flip
  /\ predictCalls' = predictCalls + 1
  /\ pc' = "awaitPredict"
  /\ UNCHANGED <<loadVars, predictions, predictOutcome, facePc, readOK, faceResult,
                 faceLog, settleOrder, result, resultNull, clearCalls, readFailures>>

\* The buffers of a batch, as the facade hands them over (all live).
HandOver(h, preds) ==
  [x \in (DOMAIN h) \cup ((DOMAIN preds) \X {"flag", "coords", "scaledCoords",
                                             "startPoint", "endPoint"}) |->
     IF x \in DOMAIN h THEN h[x]
     ELSE [ val |-> CASE x[2] = "flag" -> preds[x[1]].flag
                      [] x[2] = "coords" -> preds[x[1]].coords
                      [] x[2] = "scaledCoords" -> preds[x[1]].scaledCoords
                      [] x[2] = "startPoint" -> preds[x[1]].box.startPoint
                      [] OTHER -> preds[x[1]].box.endPoint,
            live |-> TRUE ]]

\* Mutant of HasPredictions: the length test dropped.
HasPredictionsNotNull(preds, isNull) == ~isNull

\* Line 159: if (predictions && predictions.length)
HasPredictions(preds, isNull) == ~isNull /\ Len(preds) # 0

\* Lines 154-172 and 237: predict resolved.  input and inputToFloat are
\* disposed; with predictions, every per-face callback runs up to its await of
\* the reads; without, the call returns null.
PredictResolve(preds, isNull) ==
  /\ UNCHANGED flipVars
  /\ pc = "awaitPredict"
  /\ predictOutcome' = IF isNull THEN "null" ELSE "batch"
  /\ predictions' = IF isNull THEN << >> ELSE preds
  /\ LET h1 == Dispose(Dispose(heap, InputId), InputToFloatId)
     IN IF HasPredictions(preds, isNull)
        THEN /\ heap' = HandOver(h1, preds)
             /\ facePc' = [i \in DOMAIN preds |-> "reading"]
             /\ readOK' = [i \in DOMAIN preds |-> {}]
             /\ faceResult' = [i \in DOMAIN preds |-> [none |-> TRUE]]
             /\ faceLog' = [i \in DOMAIN preds |-> << >>]
             /\ pc' = "awaitFaces"
             /\ UNCHANGED resultNull
        ELSE /\ heap' = h1
             /\ pc' = "resolved"
             /\ resultNull' = TRUE
             /\ UNCHANGED <<facePc, readOK, faceResult, faceLog>>
  /\ UNCHANGED <<loadVars, input, returnTensors, flipHorizontal, width, settleOrder,
                 result, clearCalls, predictCalls, readFailures>>

\* Mutant of OnPredictRejected: the failure caught and turned into a null result.
OnPredictRejectedReturnsNull ==
  /\ pc' = "resolved"
  /\ resultNull' = TRUE
  /\ UNCHANGED <<heap, result, predictCalls>>

\* Line 154: the await throws in estimateFaces; there is no try/catch, so
\* nothing after it runs and the promise of the call rejects.
OnPredictRejected ==
  /\ pc' = "rejected"
  /\ UNCHANGED <<heap, result, resultNull, predictCalls>>

PredictReject ==
  /\ UNCHANGED flipVars
  /\ pc = "awaitPredict"
  /\ predictOutcome' = "rejected"
  /\ OnPredictRejected
  /\ UNCHANGED <<loadVars, input, returnTensors, flipHorizontal, width,
                 predictions, facePc, readOK, faceResult, faceLog,
                 settleOrder, clearCalls, readFailures>>

\* Lines 178-195: the result of face i assembled from the buffers.
AssembleTensors(i, flip, w, h) ==
  LET face == [ faceInViewConfidence |-> Ten(<<i, "flag">>),
                mesh |-> Ten(<<i, "coords">>),
                scaledMesh |-> Ten(<<i, "scaledCoords">>),
                boundingBox |-> [ topLeft |-> Ten(<<i, "startPoint">>),
                                  bottomRight |-> Ten(<<i, "endPoint">>) ] ]
  IN IF flip THEN FlipFaceHorizontal(face, w, h, i) ELSE [face |-> face, heap |-> h]

\* Mutant of AssembleArrays: the annotations taken from scaledMesh before the flip.
AssembleArraysAnnotateFirst(i, tensorValues, flip, w, h) ==
  LET h1 == Dispose(Dispose(h, <<i, "scaledCoords">>), <<i, "coords">>)
      face == [ faceInViewConfidence |-> Arr(tensorValues[1]),
                boundingBox |-> [ topLeft |-> Arr(tensorValues[4]),
                                  bottomRight |-> Arr(tensorValues[5]) ],
                mesh |-> Arr(tensorValues[2]),
                scaledMesh |-> Arr(tensorValues[3]) ]
      f == IF flip THEN FlipArrays(face, w) ELSE face
  IN [ face |-> [ faceInViewConfidence |-> f.faceInViewConfidence,
                  boundingBox |-> f.boundingBox,
                  mesh |-> f.mesh,
                  scaledMesh |-> f.scaledMesh,
                  annotations |-> [key \in DOMAIN MESH_ANNOTATIONS |->
                     [n \in 1..Len(MESH_ANNOTATIONS[key]) |->
                        tensorValues[3][MESH_ANNOTATIONS[key][n] + 1]]] ],
       heap |-> h1 ]

\* Lines 197-233: the result of face i assembled from the values read.
AssembleArrays(i, tensorValues, flip, w, h) ==
  LET h1 == Dispose(Dispose(h, <<i, "scaledCoords">>), <<i, "coords">>)
      face == [ faceInViewConfidence |-> Arr(tensorValues[1]),
                boundingBox |-> [ topLeft |-> Arr(tensorValues[4]),
                                  bottomRight |-> Arr(tensorValues[5]) ],
                mesh |-> Arr(tensorValues[2]),
                scaledMesh |-> Arr(tensorValues[3]) ]
      flipped == IF flip THEN FlipFaceHorizontal(face, w, h1, i)
                 ELSE [face |-> face, heap |-> h1]
      f == flipped.face
  IN [ face |-> [ faceInViewConfidence |-> f.faceInViewConfidence,
                  boundingBox |-> f.boundingBox,
                  mesh |-> f.mesh,
                  scaledMesh |-> f.scaledMesh,
                  annotations |-> Annotations(f.scaledMesh.val) ],
       heap |-> flipped.heap ]

\* Mutant of CallbackEvents: the invalidation ahead of flag.dispose().
CallbackEventsClearFirst(cleared) ==
  <<"read">> \o (IF cleared THEN <<"clearROIs">> ELSE << >>) \o <<"dispose">>

\* Lines 171-176 in statement order: the reads are awaited, flag.dispose(),
\* then this.clearPipelineROIs(flagValue), which may invoke clearROIs().
CallbackEvents(cleared) ==
  <<"read", "dispose">> \o (IF cleared THEN <<"clearROIs">> ELSE << >>)

\* Lines 171-233: every array() of face i fulfilled; the rest of the callback
\* runs without suspension.
FaceReadsResolve(i) ==
  /\ UNCHANGED flipVars
  /\ pc \in {"awaitFaces", "rejected"}
  /\ i \in DOMAIN facePc
  /\ facePc[i] = "reading"
  /\ LET toRead == TensorsToRead(returnTensors)
         tensorValues == [n \in DOMAIN toRead |-> heap[<<i, toRead[n]>>].val]
         flagValue == tensorValues[1]
         h1 == Dispose(heap, <<i, "flag">>)
         calls == ClearStep(returnTensors, flagValue, detectionConfidence, clearCalls)
         out == IF returnTensors
                THEN AssembleTensors(i, flipHorizontal, width, h1)
                ELSE AssembleArrays(i, tensorValues, flipHorizontal, width, h1)
     IN /\ clearCalls' = calls
        /\ faceLog' = [faceLog EXCEPT ![i] = CallbackEvents(calls # clearCalls)]
        /\ heap' = out.heap
        /\ faceResult' = [faceResult EXCEPT ![i] = out.face]
  /\ readOK' = [readOK EXCEPT ![i] = Range(TensorsToRead(returnTensors))]
  /\ facePc' = [facePc EXCEPT ![i] = "done"]
  /\ settleOrder' = Append(settleOrder, i)
  /\ UNCHANGED <<loadVars, pc, input, returnTensors, flipHorizontal, width,
                 predictions, predictOutcome, result, resultNull, predictCalls,
                 readFailures>>

\* Line 171: the n-th array() of face i rejects after the n - 1 issued before
\* it have fulfilled (the reads of one face settle in the order map() issued
\* them); Promise.all rejects and the callback throws at the await.
FaceReadFail(i, n) ==
  /\ UNCHANGED flipVars
  /\ pc \in {"awaitFaces", "rejected"}
  /\ i \in DOMAIN facePc
  /\ facePc[i] = "reading"
  /\ readFailures < MaxReadFailures
  /\ n \in DOMAIN TensorsToRead(returnTensors)
  /\ readOK' = [readOK EXCEPT ![i] = Range(SubSeq(TensorsToRead(returnTensors), 1, n - 1))]
  /\ facePc' = [facePc EXCEPT ![i] = "failed"]
  /\ readFailures' = readFailures + 1
  /\ UNCHANGED <<loadVars, pc, input, returnTensors, flipHorizontal, width, heap,
                 predictions, predictOutcome, faceResult, faceLog, settleOrder,
                 result, resultNull, clearCalls, predictCalls>>

\* Mutant of PromiseAllValues: the values in the order the promises settled.
PromiseAllValuesAsSettled(values, order) == [n \in DOMAIN values |-> values[order[n]]]

\* Promise.all(predictions.map(...)): the values in the order of the promises.
PromiseAllValues(values, order) == [i \in DOMAIN values |-> values[i]]

\* Lines 160-234: the outer Promise.all fulfils once every callback returned.
AllFacesResolve ==
  /\ UNCHANGED flipVars
  /\ pc = "awaitFaces"
  /\ \A i \in DOMAIN facePc : facePc[i] = "done"
  /\ result' = PromiseAllValues(faceResult, settleOrder)
  /\ pc' = "resolved"
  /\ UNCHANGED <<loadVars, input, returnTensors, flipHorizontal, width, heap,
                 predictions, predictOutcome, facePc, readOK, faceResult, faceLog,
                 settleOrder, resultNull, clearCalls, predictCalls, readFailures>>

\* Mutant of FacesReject: the rejection held back until every callback threw.
FacesRejectWhenAllFailed ==
  /\ UNCHANGED flipVars
  /\ pc = "awaitFaces"
  /\ DOMAIN facePc # {}
  /\ \A i \in DOMAIN facePc : facePc[i] = "failed"
  /\ pc' = "rejected"
  /\ UNCHANGED <<loadVars, input, returnTensors, flipHorizontal, width, heap,
                 predictions, predictOutcome, facePc, readOK, faceResult, faceLog,
                 settleOrder, result, resultNull, clearCalls, predictCalls,
                 readFailures>>

\* Lines 160-234: the outer Promise.all rejects once a callback threw.
FacesReject ==
  /\ UNCHANGED flipVars
  /\ pc = "awaitFaces"
  /\ \E i \in DOMAIN facePc : facePc[i] = "failed"
  /\ pc' = "rejected"
  /\ UNCHANGED <<loadVars, input, returnTensors, flipHorizontal, width, heap,
                 predictions, predictOutcome, facePc, readOK, faceResult, faceLog,
                 settleOrder, result, resultNull, clearCalls, predictCalls,
                 readFailures>>

\* ------------------------------------------------------------ flipFaceHorizontal alone
\* Image widths and points flipFaceHorizontal is applied to: width 640 with the
\* point (100, 50), and widths smaller than some x, which mirror to negative x.
FlipWidths == {1, 4, 640}
FlipPoints == {<<0, 0>>, <<2, 50>>, <<100, 50>>}

FlipFaces ==
  { ArrayFace(DefaultDetectionConfidence, tl, br, m, sm) :
      tl \in FlipPoints, br \in FlipPoints,
      m \in [1..FlipLen -> FlipPoints], sm \in [1..FlipLen -> FlipPoints] }

\* The prediction whose buffers hold the values of an array-typed face.
PredictionOf(face) ==
  [ flag |-> face.faceInViewConfidence.val,
    coords |-> face.mesh.val,
    scaledCoords |-> face.scaledMesh.val,
    box |-> [ startPoint |-> face.boundingBox.topLeft.val,
              endPoint |-> face.boundingBox.bottomRight.val ] ]

FlipInit ==
  /\ NoCall
  /\ flipPc = "input"
  /\ flipWidth \in FlipWidths
  /\ flipFace \in FlipFaces
  /\ flipOnce = NoFace
  /\ flipTwice = NoFace
  /\ flipBuf = [face |-> NoFace, heap |-> << >>]

\* flipFaceHorizontal(face, imageWidth) on the array-typed face.
ApplyFlip ==
  /\ flipPc = "input"
  /\ flipOnce' = FlipFaceHorizontal(flipFace, flipWidth, << >>, 1).face
  /\ flipPc' = "once"
  /\ UNCHANGED <<loadVars, callVars, flipWidth, flipFace, flipTwice, flipBuf>>

\* flipFaceHorizontal applied to its own output, same width.
ApplyFlipAgain ==
  /\ flipPc = "once"
  /\ flipTwice' = FlipFaceHorizontal(flipOnce, flipWidth, << >>, 1).face
  /\ flipPc' = "twice"
  /\ UNCHANGED <<loadVars, callVars, flipWidth, flipFace, flipOnce, flipBuf>>

\* Lines 179-192 on buffers holding the same values: the buffer-typed result
\* is assembled and flipFaceHorizontal takes its tf.Tensor branch.
ApplyFlipToBuffers ==
  /\ flipPc = "twice"
  /\ flipBuf' = AssembleTensors(1, TRUE, flipWidth,
                                HandOver(<< >>, <<PredictionOf(flipFace)>>))
  /\ flipPc' = "done"
  /\ UNCHANGED <<loadVars, callVars, flipWidth, flipFace, flipOnce, flipTwice>>

FlipNext ==
  \/ ApplyFlip
  \/ ApplyFlipAgain
  \/ ApplyFlipToBuffers

FlipSpec == FlipInit /\ [][FlipNext]_vars

\* ------------------------------------------------------------ specification
Next ==
  \/ \E options \in LoadOptions : LoadStart(options)
  \/ \E ok \in BOOLEAN : LoadFaceModelSettle(ok)
  \/ \E ok \in BOOLEAN : LoadMeshModelSettle(ok)
  \/ LoadFinish
  \/ LoadReject
  \/ \E inp \in Inputs, rt \in BOOLEAN, flip \in BOOLEAN : EstimateFacesStart(inp, rt, flip)
  \/ \E preds \in PredictionBatches : PredictResolve(preds, FALSE)
  \/ PredictResolve(<< >>, TRUE)
  \/ PredictReject
  \/ \E i \in 1..MaxFaces : FaceReadsResolve(i)
  \/ \E i \in 1..MaxFaces : \E n \in DOMAIN TensorsToRead(FALSE) : FaceReadFail(i, n)
  \/ AllFacesResolve
  \/ FacesReject

Spec == Init /\ [][Next]_vars

\* A step of the call in flight: predict settles, the reads of a face settle,
\* or a reaction of the outer Promise.all runs.
CallStep ==
  \/ \E preds \in PredictionBatches : PredictResolve(preds, FALSE)
  \/ PredictResolve(<< >>, TRUE)
  \/ PredictReject
  \/ \E i \in 1..MaxFaces : FaceReadsResolve(i)
  \/ \E i \in 1..MaxFaces : \E n \in DOMAIN TensorsToRead(FALSE) : FaceReadFail(i, n)
  \/ AllFacesResolve
  \/ FacesReject

\* Spec with the call's steps weakly fair: predict and every read the call
\* awaits eventually settle, and the event loop runs a reaction that is ready.
FairSpec == Spec /\ WF_vars(CallStep)

\* ------------------------------------------------------------ properties
BufferNames == {"flag", "coords", "scaledCoords", "startPoint", "endPoint"}

Returned == pc = "resolved" /\ ~resultNull

\* The tensors embedded in a buffer-typed result.
EmbeddedIds(r) ==
  { r.faceInViewConfidence.id, r.mesh.id, r.scaledMesh.id,
    r.boundingBox.topLeft.id, r.boundingBox.bottomRight.id }

Below(i) == predictions[i].flag < detectionConfidence
Cleared(i) == "clearROIs" \in Range(faceLog[i])

\* C1: a face whose callback has run invoked clearROIs if and only if its
\* confidence is strictly below detectionConfidence, whatever the other faces'
\* confidences; a face whose callback has not run invoked nothing; the number
\* of clearROIs invocations is the number of such faces below the threshold.
C1_ClearIffBelowThreshold ==
  /\ \A i \in DOMAIN facePc :
       IF facePc[i] = "done" THEN Cleared(i) <=> Below(i) ELSE ~Cleared(i)
  /\ clearCalls = Cardinality({i \in DOMAIN facePc : facePc[i] = "done" /\ Below(i)})

C1_Witness ==
  /\ pc = "resolved"
  /\ detectionConfidence = DefaultDetectionConfidence
  /\ Len(predictions) = 2
  /\ predictions[1].flag = 89
  /\ predictions[2].flag = 90
  /\ clearCalls = 1

\* C2 (as claimed): with returnTensors, every buffer embedded in a returned
\* result is live when estimateFaces returns.
C2_EmbeddedBuffersLive ==
  (Returned /\ returnTensors) =>
    \A i \in DOMAIN result : \A t \in EmbeddedIds(result[i]) : Live(t)

\* C3 (as claimed): without returnTensors, every buffer of every prediction
\* has been released when estimateFaces returns.
C3_PredictionBuffersReleased ==
  (Returned /\ ~returnTensors) =>
    \A i \in DOMAIN predictions : \A b \in BufferNames : ~Live(<<i, b>>)

\* C4 (as claimed): the pixel-conversion buffer and the float-conversion
\* buffer are released on every exit of the call, resolved or rejected.
C4_InputBuffersReleasedOnEveryExit ==
  pc \in {"resolved", "rejected"} =>
    /\ input.kind = "pixels" => ~Live(InputId)
    /\ ~Live(InputToFloatId)

\* C5: when predict yields null or an empty batch the call resolves to null
\* (not to an empty sequence) and clearROIs was never invoked; when it yields
\* k >= 1 predictions the call resolves to a sequence of exactly k elements.
C5_NullOnNoPredictions ==
  pc = "resolved" =>
    /\ (predictOutcome = "null" \/ Len(predictions) = 0) =>
         (resultNull /\ clearCalls = 0)
    /\ (predictOutcome = "batch" /\ Len(predictions) >= 1) =>
         (~resultNull /\ Len(result) = Len(predictions))

C5_Witness ==
  /\ pc = "resolved"
  /\ predictOutcome = "batch"
  /\ Len(predictions) = 0
  /\ resultNull

\* Element r of a returned sequence carries the data of prediction i.
MirrorX(x) == IF flipHorizontal THEN width - 1 - x ELSE x

BuiltFrom(r, i) ==
  IF returnTensors
  THEN \A t \in EmbeddedIds(r) : t[1] = i
  ELSE /\ r.faceInViewConfidence.val = predictions[i].flag
       /\ \A j \in 1..MeshLen :
            /\ r.mesh.val[j] = <<MirrorX(predictions[i].coords[j][1]),
                                 predictions[i].coords[j][2]>>
            /\ r.scaledMesh.val[j] = <<MirrorX(predictions[i].scaledCoords[j][1]),
                                       predictions[i].scaledCoords[j][2]>>
       /\ r.boundingBox.topLeft.val[2] = predictions[i].box.startPoint[2]
       /\ r.boundingBox.bottomRight.val[2] = predictions[i].box.endPoint[2]

\* C6: element i of the returned sequence is built from prediction i, in
\* whatever order the per-face callbacks completed.
C6_OrderPreserved ==
  Returned =>
    /\ DOMAIN result = DOMAIN predictions
    /\ \A i \in DOMAIN result : BuiltFrom(result[i], i)

C6_Witness ==
  /\ Returned
  /\ settleOrder = <<2, 1>>

\* C7: when predict rejects the call rejects: no result (neither null nor a
\* sequence), predict invoked exactly once, clearROIs never, no callback run.
C7_PredictRejectionPropagates ==
  predictOutcome = "rejected" =>
    /\ pc = "rejected"
    /\ ~resultNull
    /\ result = << >>
    /\ predictCalls = 1
    /\ clearCalls = 0
    /\ DOMAIN facePc = {}

C7_Witness ==
  /\ predictOutcome = "rejected"
  /\ pc = "rejected"
  /\ predictCalls = 1

\* The invocations the confidences and the threshold alone call for.
ExpectedClears == Cardinality({i \in DOMAIN predictions : Below(i)})

\* C8: for every choice of returnTensors and flipHorizontal, a resolved call
\* has invoked clearROIs a number of times that is a function of the faces'
\* confidences and the threshold only; so two calls on the same facade output
\* that differ in these flags invoke it equally often.
C8_ClearsIndependentOfOutputShape ==
  \A rt \in BOOLEAN, flip \in BOOLEAN :
    (pc = "resolved" /\ returnTensors = rt /\ flipHorizontal = flip) =>
      clearCalls = ExpectedClears

C8_Witness ==
  /\ pc = "resolved"
  /\ returnTensors
  /\ flipHorizontal
  /\ Len(predictions) = 2
  /\ clearCalls = 2

\* C9: in every array-typed result, annotations[key][j] is the point of that
\* result's scaledMesh at index MESH_ANNOTATIONS[key][j], in the table's
\* order, with and without flipHorizontal.
C9_AnnotationsIndexScaledMesh ==
  (Returned /\ ~returnTensors) =>
    \A i \in DOMAIN result : \A key \in DOMAIN MESH_ANNOTATIONS :
      /\ DOMAIN result[i].annotations[key] = DOMAIN MESH_ANNOTATIONS[key]
      /\ \A j \in DOMAIN MESH_ANNOTATIONS[key] :
           result[i].annotations[key][j] =
             result[i].scaledMesh.val[MESH_ANNOTATIONS[key][j] + 1]

C9_Witness ==
  /\ Returned
  /\ ~returnTensors
  /\ flipHorizontal
  /\ Len(result) = 2
  /\ result[1].annotations.silhouette[1] = result[1].scaledMesh.val[3]
  /\ result[1].scaledMesh.val[3] # predictions[1].scaledCoords[3]

\* C10: a returned result has an annotations field if and only if
\* returnTensors is false; when present its keys are those of
\* MESH_ANNOTATIONS and every value is as long as its index list.
C10_AnnotationsIffArrays ==
  Returned =>
    \A i \in DOMAIN result :
      /\ ("annotations" \in DOMAIN result[i]) <=> ~returnTensors
      /\ ~returnTensors =>
           /\ DOMAIN result[i].annotations = DOMAIN MESH_ANNOTATIONS
           /\ \A key \in DOMAIN MESH_ANNOTATIONS :
                Len(result[i].annotations[key]) = Len(MESH_ANNOTATIONS[key])

C10_Witness ==
  /\ Returned
  /\ returnTensors
  /\ flipHorizontal
  /\ Len(result) >= 1
  /\ "annotations" \notin DOMAIN result[1]

\* ------------------------------------------------------------ properties of the flip
Mirror(p) == <<flipWidth - 1 - p[1], p[2]>>

\* C11: on an array-typed face, flipFaceHorizontal maps x to (W - 1) - x and
\* keeps y, for both corners and every mesh and scaledMesh point; each corner
\* comes from the same-labelled corner, and the points keep their order.
\* With W = 640 the point (100, 50) becomes (539, 50).
C11_FlipMirrorsX ==
  flipPc \in {"once", "twice", "done"} =>
    /\ flipOnce.boundingBox.topLeft.val = Mirror(flipFace.boundingBox.topLeft.val)
    /\ flipOnce.boundingBox.bottomRight.val = Mirror(flipFace.boundingBox.bottomRight.val)
    /\ DOMAIN flipOnce.mesh.val = DOMAIN flipFace.mesh.val
    /\ DOMAIN flipOnce.scaledMesh.val = DOMAIN flipFace.scaledMesh.val
    /\ \A j \in DOMAIN flipFace.mesh.val :
         flipOnce.mesh.val[j] = Mirror(flipFace.mesh.val[j])
    /\ \A j \in DOMAIN flipFace.scaledMesh.val :
         flipOnce.scaledMesh.val[j] = Mirror(flipFace.scaledMesh.val[j])
    /\ flipOnce.faceInViewConfidence = flipFace.faceInViewConfidence
    /\ (flipWidth = 640 /\ flipFace.mesh.val[1] = <<100, 50>>) =>
         flipOnce.mesh.val[1] = <<539, 50>>

C11_Witness ==
  /\ flipPc = "once"
  /\ flipWidth = 640
  /\ flipFace.mesh.val = <<(<<100, 50>>), (<<0, 0>>)>>
  /\ flipOnce.mesh.val = <<(<<539, 50>>), (<<639, 0>>)>>
  /\ flipFace.boundingBox.topLeft.val = <<0, 0>>
  /\ flipFace.boundingBox.bottomRight.val = <<100, 50>>
  /\ flipOnce.boundingBox.topLeft.val = <<639, 0>>
  /\ flipOnce.boundingBox.bottomRight.val = <<539, 50>>

\* C12: flipFaceHorizontal applied twice with the same width gives back the
\* face it started from (corners, mesh, scaledMesh), for every width and face.
C12_FlipTwiceIsIdentity ==
  flipPc \in {"twice", "done"} => flipTwice = flipFace

C12_Witness ==
  /\ flipPc = "twice"
  /\ flipWidth = 1
  /\ flipFace.mesh.val[1] = <<100, 50>>
  /\ flipOnce.mesh.val[1] = <<-100, 50>>
  /\ flipTwice.mesh.val[1] = <<100, 50>>

\* The value of a buffer-typed field of the flipped buffer-typed face.
BufVal(field) == flipBuf.heap[field.id].val

C14_PipelineOnlyAfterBothLoads ==
  /\ loadPc # "new" => (faceModel # "none" /\ meshModel # "none")
  /\ (pipeline = "set" \/ detectionConfidence # 0 \/ loadPc = "loaded") =>
       (faceModel = "ok" /\ meshModel = "ok")
  /\ (faceModel = "fail" \/ meshModel = "fail") =>
       (pipeline = "unset" /\ detectionConfidence = 0 /\ loadPc \in {"loading", "failed"})
  /\ loadPc = "failed" => (faceModel = "fail" \/ meshModel = "fail")

C14_Witness ==
  /\ loadPc = "failed"
  /\ faceModel = "ok"
  /\ meshModel = "fail"
  /\ pipeline = "unset"

\* ------------------------------------------------------------ properties of the buffers
\* C15 (as claimed): when a read of a face has rejected and the call has
\* failed, the buffers of that face that had already been read are released.
C15_ReadSiblingsReleased ==
  (pc = "rejected" /\ predictOutcome = "batch") =>
    \A i \in DOMAIN facePc :
      facePc[i] = "failed" => \A b \in readOK[i] : ~Live(<<i, b>>)

\* C16: within a face the reads complete, then flag is released, then the
\* invalidation step runs: a face that invoked clearROIs has completed its
\* reads and released flag, a face still reading or failed has done neither;
\* nothing orders the faces among themselves.
C16_ReadDisposeClearOrder ==
  \A i \in DOMAIN facePc :
    /\ faceLog[i] \in { << >>, <<"read", "dispose">>, <<"read", "dispose", "clearROIs">> }
    /\ faceLog[i] # << >> <=> facePc[i] = "done"
    /\ Cleared(i) => (~Live(<<i, "flag">>) /\ "flag" \in readOK[i])
    /\ facePc[i] # "done" => (~Cleared(i) /\ Live(<<i, "flag">>))

C16_Witness ==
  /\ pc = "awaitFaces"
  /\ Len(predictions) = 2
  /\ facePc[1] = "reading"
  /\ faceLog[2] = <<"read", "dispose", "clearROIs">>

\* C17 (as claimed): a tf.Tensor the caller passed as input is still live
\* when estimateFaces has returned.
C17_CallerTensorStillLive ==
  (pc = "resolved" /\ input.kind = "tensor") => Live(InputId)

\* C18 (as claimed): with returnTensors, every prediction buffer that is not
\* embedded in the returned result has been released when the call returns.
C18_UnembeddedBuffersReleased ==
  (Returned /\ returnTensors) =>
    \A i \in DOMAIN result : \A b \in BufferNames :
      <<i, b>> \notin EmbeddedIds(result[i]) => ~Live(<<i, b>>)

\* C19 (as claimed): after a successful call without returnTensors no buffer
\* of the input side (pixel conversion, float conversion, batched image) is
\* live.
C19_InputSideBuffersReleased ==
  (pc = "resolved" /\ ~returnTensors) =>
    /\ ~Live(ImageId)
    /\ ~Live(InputToFloatId)
    /\ input.kind = "pixels" => ~Live(InputId)

\* ------------------------------------------------------------ termination
\* C20: a call that has been invoked (it is awaiting predict) eventually
\* resolves or rejects, given that predict and the reads settle; the call is
\* only ever idle, awaiting predict, awaiting its faces, resolved or rejected.
C20_CallTerminates ==
  /\ [](pc \in {"idle", "awaitPredict", "awaitFaces", "resolved", "rejected"})
  /\ (pc = "awaitPredict") ~> (pc \in {"resolved", "rejected"})

C20_Witness ==
  /\ pc = "rejected"
  /\ Len(predictions) = 2
  /\ facePc[1] = "done"
  /\ facePc[2] = "failed"

====
